---- MODULE Spec2Model ----
(***************************************************************************)
(* Model of the two spreadsheet-to-JSON pipelines:                         *)
(*   src/convert_excel.py        (indentation-keyed source)                *)
(*   src/generate_solar_data.py  (column-keyed source)                     *)
(*                                                                         *)
(* A Python dict is modelled as a sequence of entries in insertion order.  *)
(* An entry is [k, isnum, num, kids]: key k maps to the number num when    *)
(* isnum, and to the nested dict kids otherwise.                           *)
(***************************************************************************)
EXTENDS Integers, Sequences, FiniteSets, TLC

VARIABLES
    rows,         \* build_json_from_value_sheet: its argument
    result,       \* build_json_from_value_sheet: how the call ended
    value_data,   \* generate_volume_from_value: its argument
    rng,          \* the state of the random module's generator
    volume_json,  \* what the last call of generate_volume_from_value returned
    first_volume, \* what its first call returned
    first_rng,    \* the generator's state when the first call began
    calls,        \* calls of generate_volume_from_value so far
    source,       \* row extraction: "indent" (read_value_sheet) or "column" (parse_section)
    labels,       \* row extraction: the row's region, segment, sub-segment cells
    cells,        \* row extraction: the row's year cells
    extracted,    \* row extraction: how the extraction of the row ended
    subseg,       \* label normalization: the label
    after_first,  \* label normalization: the label after the first normalization
    applied,      \* label normalization: normalizations applied so far
    pipeline,     \* main: "convert_excel" or "generate_solar_data"
    sheet,        \* main: what the source workbook holds
    pc,           \* main: the statement reached
    wb,           \* main: the workbook, "unopened", "open" or "closed"
    opens,        \* main: calls of load_workbook that returned
    files,        \* main: the output files written, in order
    in_call,      \* factor draws: generate_volume_from_value has seeded the generator
    last_draw,    \* factor draws: the last visit of walk_and_convert that drew a factor
    drawn,        \* factor draws: the factors drawn so far, each with its bucket
    ndraws,       \* factor draws: their number
    section,      \* build_json ("value") or build_volume_json ("volume")
    records,      \* build_json / build_volume_json: the argument records
    solar_data    \* build_json / build_volume_json: the data returned

buildVars == <<rows, result>>

volumeVars == <<value_data, rng, volume_json, first_volume, first_rng, calls>>

readVars == <<source, labels, cells, extracted>>

normVars == <<subseg, after_first, applied>>

mainVars == <<pipeline, sheet, pc, wb, opens, files>>

drawVars == <<in_call, last_draw, drawn, ndraws>>

solarVars == <<section, records, solar_data>>

vars == <<buildVars, volumeVars, readVars, normVars, mainVars, drawVars, solarVars>>

-----------------------------------------------------------------------------
(* Python dicts                                                            *)

NumE(k, n) == [k |-> k, isnum |-> TRUE, num |-> n, kids |-> <<>>]

DictE(k, d) == [k |-> k, isnum |-> FALSE, num |-> 0, kids |-> d]

HasKey(d, k) == \E i \in 1..Len(d) : d[i].k = k

KeyIndex(d, k) == CHOOSE i \in 1..Len(d) : d[i].k = k

\* d[k]
DictGet(d, k) == d[KeyIndex(d, k)]

\* d[e.k] = e : an existing key keeps its place, a new key goes last
DictSet(d, e) ==
    IF HasKey(d, e.k) THEN [d EXCEPT ![KeyIndex(d, e.k)] = e] ELSE Append(d, e)

\* d[k] when it is a nested dict
Kids(d, k) == DictGet(d, k).kids

\* for key, val in src.items(): d[key] = val
RECURSIVE DictUpdate(_, _)
DictUpdate(d, src) ==
    IF src = <<>> THEN d ELSE DictUpdate(DictSet(d, Head(src)), Tail(src))

\* str(k).isdigit() for the keys of the model: the year labels
YearLabels == {"2021", "2022", "2023"}

IsDigit(k) == k \in YearLabels

-----------------------------------------------------------------------------
(* convert_excel.py: rows as read_value_sheet returns them                 *)

\* Python's None for current_geo, current_seg_type, current_sub_seg
None == "<None>"

\* a local variable that has not been assigned yet
Unbound == "<unbound>"

\* 'year_data': year_data if has_data else None
NoData == [none |-> TRUE, items |-> <<>>]

YearData(items) == [none |-> FALSE, items |-> items]

\* the truth value of row['year_data']
Truthy(yd) == ~yd.none /\ yd.items # <<>>

Row(label, indent, yd) == [label |-> label, indent |-> indent, year_data |-> yd]

-----------------------------------------------------------------------------
(* build_json_from_value_sheet, first pass                                 *)

\* for j in range(i + 1, len(rows)): the first row of indent 3 or of indent <= 2
\* decides; rows of a deeper indent are passed over
NextRowsHaveChild(rs, i) ==
    LET stop == {j \in (i + 1)..Len(rs) : rs[j].indent = 3 \/ rs[j].indent <= 2}
    IN  /\ stop # {}
        /\ rs[CHOOSE j \in stop : \A m \in stop : j <= m].indent = 3

\* one iteration of the first loop over the scan state
\* [geo, seg, flags, status]
ScanStep(rs, i, sc) ==
    LET row == rs[i]
    IN  IF sc.status # "ok" THEN sc
        ELSE IF row.indent = 2 /\ Truthy(row.year_data) THEN
            IF NextRowsHaveChild(rs, i) THEN
                IF sc.geo = Unbound \/ sc.seg = Unbound
                THEN [sc EXCEPT !.status = "UnboundLocalError"]
                ELSE [sc EXCEPT !.flags = @ \cup {<<sc.geo, sc.seg, row.label>>}]
            ELSE sc
        ELSE IF row.indent = 0 THEN [sc EXCEPT !.geo = row.label]
        ELSE IF row.indent = 1 THEN [sc EXCEPT !.seg = row.label]
        ELSE sc

RECURSIVE ScanFrom(_, _, _)
ScanFrom(rs, i, sc) ==
    IF i > Len(rs) THEN sc ELSE ScanFrom(rs, i + 1, ScanStep(rs, i, sc))

\* sub_seg_has_children after the first loop, or the exception it raised
PrePass(rs) ==
    ScanFrom(rs, 1, [geo |-> Unbound, seg |-> Unbound, flags |-> {}, status |-> "ok"])

-----------------------------------------------------------------------------
(* build_json_from_value_sheet, second pass                                *)

\* result[current_geo][current_seg_type] = geo_data
PutGeoData(res, geo, seg, geo_data) ==
    DictSet(res, DictE(geo, DictSet(Kids(res, geo), DictE(seg, geo_data))))

\* the indent-2 branch, year_data not None
SubSegmentNode(geo_data, label, year_data, has_children) ==
    IF has_children
    THEN DictUpdate(IF HasKey(geo_data, label) THEN Kids(geo_data, label) ELSE <<>>,
                    year_data.items)
    ELSE year_data.items

\* the indent-1 branch
SegmentTypeRow(st, row) ==
    [st EXCEPT !.current_seg_type = row.label,
               !.current_sub_seg = None,
               !.result = IF HasKey(Kids(@, st.current_geo), row.label) THEN @
                          ELSE DictSet(@, DictE(st.current_geo,
                                   Append(Kids(@, st.current_geo), DictE(row.label, <<>>))))]

\* one iteration of the second loop over
\* [result, current_geo, current_seg_type, current_sub_seg]
MainStep(st, row, flags) ==
    IF row.indent = 0 THEN
        [result |-> IF HasKey(st.result, row.label) THEN st.result
                    ELSE Append(st.result, DictE(row.label, <<>>)),
         current_geo |-> row.label,
         current_seg_type |-> None,
         current_sub_seg |-> None]
    ELSE IF st.current_geo = None THEN st
    ELSE IF row.indent = 1 THEN SegmentTypeRow(st, row)
    ELSE IF st.current_seg_type = None THEN st
    ELSE
        LET geo_data == Kids(Kids(st.result, st.current_geo), st.current_seg_type)
        IN  IF row.indent = 2 THEN
                IF row.year_data.none THEN [st EXCEPT !.current_sub_seg = row.label]
                ELSE
                    LET has_children ==
                            <<st.current_geo, st.current_seg_type, row.label>> \in flags
                        node == SubSegmentNode(geo_data, row.label, row.year_data, has_children)
                    IN  [st EXCEPT !.current_sub_seg = row.label,
                                   !.result = PutGeoData(@, st.current_geo, st.current_seg_type,
                                                  DictSet(geo_data, DictE(row.label, node)))]
            ELSE IF row.indent = 3 THEN
                IF st.current_sub_seg = None \/ row.year_data.none THEN st
                ELSE
                    LET parent == IF HasKey(geo_data, st.current_sub_seg)
                                  THEN Kids(geo_data, st.current_sub_seg) ELSE <<>>
                        node == DictSet(parent, DictE(row.label, row.year_data.items))
                    IN  [st EXCEPT !.result = PutGeoData(@, st.current_geo, st.current_seg_type,
                                                  DictSet(geo_data, DictE(st.current_sub_seg, node)))]
            ELSE st

RECURSIVE MainFrom(_, _, _, _)
MainFrom(rs, i, st, flags) ==
    IF i > Len(rs) THEN st ELSE MainFrom(rs, i + 1, MainStep(st, rs[i], flags), flags)

MainPass(rs, flags) ==
    MainFrom(rs, 1, [result |-> <<>>, current_geo |-> None,
                     current_seg_type |-> None, current_sub_seg |-> None], flags).result

\* the call build_json_from_value_sheet(rows): the returned tree, or the
\* exception that ended it; sub_seg_has_children is kept for inspection
build_json_from_value_sheet(rs) ==
    LET pre == PrePass(rs)
    IN  IF pre.status # "ok"
        THEN [status |-> pre.status, tree |-> <<>>, sub_seg_has_children |-> pre.flags]
        ELSE [status |-> "ok", tree |-> MainPass(rs, pre.flags),
              sub_seg_has_children |-> pre.flags]

-----------------------------------------------------------------------------
(* Inputs of build_json_from_value_sheet                                   *)

\* longest free part of a row sequence
MaxTail == 3

Y1(v) == <<NumE("2021", v)>>

Y2(v, w) == <<NumE("2021", v), NumE("2022", w)>>

\* the rows the free part is made of
RowChoices ==
    { Row("Global", 0, NoData), Row("North America", 0, NoData),
      Row("By Product", 1, NoData), Row("By Product", 1, YearData(Y1(500))),
      Row("By Region", 1, NoData),
      Row("Combo Products", 2, YearData(Y1(100))), Row("Combo Products", 2, NoData),
      Row("Combo Products", 2, YearData(Y1(5000))),
      Row("Other", 2, YearData(Y2(20000, 900))),
      Row("Inhalers", 3, YearData(Y1(60))), Row("Pumps", 3, YearData(Y1(40))),
      Row("Inhalers", 3, NoData),
      Row("Detail", 4, YearData(Y1(5))) }

RECURSIVE SeqsUpTo(_, _)
SeqsUpTo(S, n) ==
    IF n = 0 THEN {<<>>}
    ELSE LET shorter == SeqsUpTo(S, n - 1)
         IN  shorter \cup {Append(s, x) : s \in {t \in shorter : Len(t) = n - 1}, x \in S}

\* a sub-segment with a child before any geography row
OrphanHead ==
    <<Row("Combo Products", 2, YearData(Y1(100))), Row("Inhalers", 3, YearData(Y1(60)))>>

\* the first two rows of the sheet: a geography and a segment type, no data
ContextHead == <<Row("Global", 0, YearData(<<>>)), Row("By Product", 1, YearData(<<>>))>>

RowSeqs ==
    {o \o c \o t : o \in {<<>>, OrphanHead}, c \in {<<>>, ContextHead},
                   t \in SeqsUpTo(RowChoices, MaxTail)}

NotRun == [status |-> "not_run", tree |-> <<>>, sub_seg_has_children |-> {}]

\* the variables of generate_volume_from_value while it is not in use
VolumeIdle ==
    /\ value_data = <<>>
    /\ rng = 0
    /\ volume_json = <<>>
    /\ first_volume = <<>>
    /\ first_rng = 0
    /\ calls = 0

\* the variables of the row extraction while it is not in use
ReadIdle ==
    /\ source = "indent"
    /\ labels = <<>>
    /\ cells = <<>>
    /\ extracted = [status |-> "not_run", appended |-> FALSE, year_data |-> NoData]

\* the variables of the label normalization while it is not in use
NormIdle ==
    /\ subseg = <<>>
    /\ after_first = <<>>
    /\ applied = 0

\* the variables of main while it is not in use
MainIdle ==
    /\ pipeline = "convert_excel"
    /\ sheet = [rows |-> <<>>, readable |-> TRUE]
    /\ pc = "idle"
    /\ wb = "unopened"
    /\ opens = 0
    /\ files = <<>>

\* no factor drawn yet
NoDraw == [branch |-> "none", base_val |-> 0, factor |-> [n |-> 0, d |-> 1]]

\* the variables of the factor draws while they are not in use
DrawIdle ==
    /\ in_call = FALSE
    /\ last_draw = NoDraw
    /\ drawn = {}
    /\ ndraws = 0

\* data before build_json / build_volume_json is called
NotBuilt == [built |-> FALSE, data |-> <<>>]

\* the variables of build_json / build_volume_json while they are not in use
SolarIdle ==
    /\ section = "value"
    /\ records = <<>>
    /\ solar_data = NotBuilt

BuildInit ==
    /\ rows \in RowSeqs
    /\ result = NotRun
    /\ VolumeIdle
    /\ ReadIdle
    /\ NormIdle
    /\ MainIdle
    /\ DrawIdle
    /\ SolarIdle

BuildJson ==
    /\ result.status = "not_run"
    /\ result' = build_json_from_value_sheet(rows)
    /\ UNCHANGED <<rows, volumeVars, readVars, normVars, mainVars, drawVars, solarVars>>

BuildNext == BuildJson

SpecBuild == BuildInit /\ [][BuildNext]_vars


-----------------------------------------------------------------------------
(* Vocabulary of the claims about build_json_from_value_sheet              *)

Built == result.status # "not_run"

Returned == result.status = "ok"

\* index of the last row before i with the given indent, 0 when there is none
LastBefore(rs, i, indent) ==
    LET S == {j \in 1..(i - 1) : rs[j].indent = indent}
    IN  IF S = {} THEN 0 ELSE CHOOSE j \in S : \A m \in S : m <= j

\* the geography row i lies under, None when no geography row precedes it
GeoOf(rs, i) ==
    IF LastBefore(rs, i, 0) = 0 THEN None ELSE rs[LastBefore(rs, i, 0)].label

\* the segment-type row i lies under: the last indent-1 row since the
\* geography row, None when there is none
SegOf(rs, i) ==
    IF LastBefore(rs, i, 0) = 0 \/ LastBefore(rs, i, 1) < LastBefore(rs, i, 0)
    THEN None ELSE rs[LastBefore(rs, i, 1)].label

HasContext(rs, i) == GeoOf(rs, i) # None /\ SegOf(rs, i) # None

\* the maximal contiguous run of indent-3 rows immediately after row i
RunAfter(rs, i) ==
    {j \in (i + 1)..Len(rs) : \A m \in (i + 1)..j : rs[m].indent = 3}

\* a dict whose entries are all year label -> number
IsYearMapping(d) == \A n \in 1..Len(d) : d[n].isnum /\ IsDigit(d[n].k)

\* the node of sub-segment label under (geo, seg) in tree, <<>> when absent
SubNode(tree, geo, seg, label) ==
    IF HasKey(tree, geo) /\ HasKey(Kids(tree, geo), seg)
       /\ HasKey(Kids(Kids(tree, geo), seg), label)
    THEN Kids(Kids(Kids(tree, geo), seg), label)
    ELSE <<>>

HasSubNode(tree, geo, seg, label) ==
    /\ HasKey(tree, geo)
    /\ HasKey(Kids(tree, geo), seg)
    /\ HasKey(Kids(Kids(tree, geo), seg), label)

\* keys of d that hold nested dicts
ChildKeys(d) == {d[n].k : n \in {m \in 1..Len(d) : ~d[m].isnum}}

-----------------------------------------------------------------------------
(* C1 *)

Scenario ==
    ContextHead \o <<Row("Combo Products", 2, YearData(Y1(100))),
                     Row("Inhalers", 3, YearData(Y1(60))),
                     Row("Pumps", 3, YearData(Y1(40)))>>

ScenarioTree ==
    <<DictE("Global", <<DictE("By Product", <<DictE("Combo Products",
        <<NumE("2021", 100), DictE("Inhalers", Y1(60)), DictE("Pumps", Y1(40))>>)>>)>>)>>

\* row i is a sub-segment with year data under a geography and a segment
\* type, immediately followed by indent-3 rows that all carry year data
ParentPattern(rs, i) ==
    /\ rs[i].indent = 2
    /\ Truthy(rs[i].year_data)
    /\ HasContext(rs, i)
    /\ RunAfter(rs, i) # {}
    /\ \A j \in RunAfter(rs, i) : Truthy(rs[j].year_data)

\* the node holds the row's year keys as numbers and one year mapping per child
MixedNodeHolds(rs, i, tree) ==
    LET node == SubNode(tree, GeoOf(rs, i), SegOf(rs, i), rs[i].label)
    IN  /\ HasSubNode(tree, GeoOf(rs, i), SegOf(rs, i), rs[i].label)
        /\ \A n \in 1..Len(rs[i].year_data.items) :
              LET k == rs[i].year_data.items[n].k
              IN  HasKey(node, k) /\ DictGet(node, k).isnum
        /\ \A j \in RunAfter(rs, i) :
              /\ HasKey(node, rs[j].label)
              /\ ~DictGet(node, rs[j].label).isnum
              /\ Kids(node, rs[j].label) # <<>>
              /\ IsYearMapping(Kids(node, rs[j].label))

\* C1: whenever a geography row and a segment-type row precede an indent-2
\* row with year data that is immediately followed by indent-3 rows with year
\* data, the call returns a tree whose node for that sub-segment holds its own
\* year values and one nested year mapping per child; the scenario of the
\* specification yields exactly its expected tree.
C1_MixedNode ==
    Built =>
        /\ \A i \in 1..Len(rows) :
              ParentPattern(rows, i) => Returned /\ MixedNodeHolds(rows, i, result.tree)
        /\ rows = Scenario => Returned /\ result.tree = ScenarioTree

\* the same, for the calls that return
C1_MixedNodeWhenReturned ==
    Returned =>
        /\ \A i \in 1..Len(rows) :
              ParentPattern(rows, i) => MixedNodeHolds(rows, i, result.tree)
        /\ rows = Scenario => result.tree = ScenarioTree

C1_ScenarioBuilt == rows = Scenario /\ Returned /\ result.tree = ScenarioTree

-----------------------------------------------------------------------------
(* C2 *)

\* row i was written as a pure leaf: indent 2, year data, context, no flag
WrittenAsLeaf(rs, i, flags) ==
    /\ rs[i].indent = 2
    /\ ~rs[i].year_data.none
    /\ HasContext(rs, i)
    /\ <<GeoOf(rs, i), SegOf(rs, i), rs[i].label>> \notin flags

\* C2: every sub-segment written as a pure leaf is, in the returned tree, a
\* node whose keys are all year labels and that holds no nested object.
C2_PureLeaf ==
    Returned =>
        \A i \in 1..Len(rows) :
            WrittenAsLeaf(rows, i, result.sub_seg_has_children) =>
                /\ HasSubNode(result.tree, GeoOf(rows, i), SegOf(rows, i), rows[i].label)
                /\ IsYearMapping(SubNode(result.tree, GeoOf(rows, i), SegOf(rows, i),
                                         rows[i].label))

-----------------------------------------------------------------------------
(* C6 *)

\* row i lies before its geography or, at indent 2 or 3, before a segment
\* type under the current geography
Orphan(rs, i) ==
    /\ rs[i].indent \in 1..3
    /\ \/ GeoOf(rs, i) = None
       \/ rs[i].indent \in 2..3 /\ SegOf(rs, i) = None

RECURSIVE KeepFrom(_, _)
KeepFrom(rs, i) ==
    IF i > Len(rs) THEN <<>>
    ELSE (IF Orphan(rs, i) THEN <<>> ELSE <<rs[i]>>) \o KeepFrom(rs, i + 1)

WithoutOrphans(rs) == KeepFrom(rs, 1)

\* C6: a row whose geography or segment type is not established is dropped:
\* the call returns normally, and the tree is the one the rows without the
\* dropped rows give.
C6_OrphanDropped ==
    Built =>
        /\ Returned
        /\ result.tree = build_json_from_value_sheet(WithoutOrphans(rows)).tree

\* the same, for the calls that return
C6_OrphanDroppedWhenReturned ==
    Returned => result.tree = build_json_from_value_sheet(WithoutOrphans(rows)).tree

-----------------------------------------------------------------------------
(* C9 *)

\* C9: a segment-type row (indent 1) that carries year values has them in its
\* node of the returned tree, alongside its sub-segments.
C9_SegmentTotals ==
    Returned =>
        \A i \in 1..Len(rows) :
            (rows[i].indent = 1 /\ Truthy(rows[i].year_data) /\ GeoOf(rows, i) # None) =>
                LET node == Kids(Kids(result.tree, GeoOf(rows, i)), rows[i].label)
                IN  \A n \in 1..Len(rows[i].year_data.items) :
                        HasKey(node, rows[i].year_data.items[n].k)

-----------------------------------------------------------------------------
(* C10 *)

\* the indent-2 rows of sub-segment (geo, seg, label)
RowsOf(rs, geo, seg, label) ==
    {i \in 1..Len(rs) : /\ rs[i].indent = 2
                        /\ rs[i].label = label
                        /\ GeoOf(rs, i) = geo
                        /\ SegOf(rs, i) = seg}

\* labels of the rows with year data in the runs that follow those rows
RunLabels(rs, geo, seg, label) ==
    {rs[j].label : j \in {m \in 1..Len(rs) :
        /\ ~rs[m].year_data.none
        /\ \E i \in RowsOf(rs, geo, seg, label) : m \in RunAfter(rs, i)}}

\* C10: the children under a sub-segment node are exactly the rows of the
\* maximal contiguous run of indent-3 rows right after its indent-2 row (a
\* row of any other indent ends the run), and the first pass flags a
\* sub-segment with year data exactly when that run is not empty.
C10_ContiguousRun ==
    Returned =>
        \A i \in 1..Len(rows) :
            (rows[i].indent = 2 /\ HasContext(rows, i)) =>
                LET geo == GeoOf(rows, i)
                    seg == SegOf(rows, i)
                    label == rows[i].label
                IN  /\ ChildKeys(SubNode(result.tree, geo, seg, label))
                          = RunLabels(rows, geo, seg, label)
                    /\ <<geo, seg, label>> \in result.sub_seg_has_children
                          <=> \E m \in RowsOf(rows, geo, seg, label) :
                                  Truthy(rows[m].year_data) /\ RunAfter(rows, m) # {}


-----------------------------------------------------------------------------
(* The random module.  Its generator is a deterministic state machine: the *)
(* model keeps that and replaces the Mersenne Twister by a small            *)
(* congruential generator.  random() returns one of the fractions          *)
(* 0/RngMax .. RngMax/RngMax.                                              *)

\* number of generator states
RngMod == 8

RngMax == RngMod - 1

\* random.seed(42)
SEED == 42

\* random.seed(a) as a call that leaves the generator where it is would be
RandomSeedKept(s, a) == s

\* random.seed(a): the state depends on a alone
RandomSeed(s, a) == a % RngMod

\* the generator's next state, which is also the numerator of random()
RngNext(s) == (5 * s + 3) % RngMod

\* random.uniform(a, b) = a + (b - a) * random(): the factor as a fraction
\* n/d and the generator's state after the draw.  Both ends can be drawn
\* (in floating point a + (b - a) * random() rounds to b for random() close to 1).
Uniform(a, b, s) ==
    [factor |-> [n |-> a * RngMax + (b - a) * RngNext(s), d |-> RngMax],
     rng |-> RngNext(s)]

\* round(n / d), d > 0: to the nearest integer, a half to the even one
Round(n, d) ==
    LET q == n \div d
        r == n % d
    IN  IF 2 * r < d THEN q
        ELSE IF 2 * r > d THEN q + 1
        ELSE IF q % 2 = 0 THEN q ELSE q + 1

-----------------------------------------------------------------------------
(* generate_volume_from_value                                              *)

LargeBase == 10000

MediumBase == 1000

LargeLow == 400

LargeHigh == 800

MediumHigh == 1500

SmallHigh == 3000

\* DrawFactor with the first range repeated in the elif branch would be
DrawFactorRangeRepeated(base_val, s) ==
    IF base_val > LargeBase THEN Uniform(LargeLow, LargeHigh, s)
    ELSE IF base_val > MediumBase THEN Uniform(LargeLow, LargeHigh, s)
    ELSE Uniform(MediumHigh, SmallHigh, s)

\* the if/elif/else on base_val and the draw of the factor
DrawFactor(base_val, s) ==
    IF base_val > LargeBase THEN Uniform(LargeLow, LargeHigh, s)
    ELSE IF base_val > MediumBase THEN Uniform(LargeHigh, MediumHigh, s)
    ELSE Uniform(MediumHigh, SmallHigh, s)

\* any(str(k).isdigit() for k in node.keys())
has_year_data(node) == \E i \in 1..Len(node) : IsDigit(node[i].k)

\* any(isinstance(v, dict) for v in node.values())
has_children(node) == \E i \in 1..Len(node) : ~node[i].isnum

\* next((v for k, v in node.items() if str(k).isdigit() and isinstance(v, (int, float))), 1)
base_val(node) ==
    LET S == {i \in 1..Len(node) : IsDigit(node[i].k) /\ node[i].isnum}
    IN  IF S = {} THEN 1 ELSE node[CHOOSE i \in S : \A m \in S : i <= m].num

\* round(v * factor)
Scaled(v, factor) == Round(v * factor.n, factor.d)

RECURSIVE walk_and_convert(_, _)
RECURSIVE ConvertItems(_, _, _, _)

\* ConvertItems as a loop that copies the numbers only would be
ConvertItemsNumbersOnly(items, scale, factor, s) ==
    IF items = <<>> THEN [tree |-> <<>>, rng |-> s]
    ELSE
        LET e == Head(items)
            rest == ConvertItems(Tail(items), scale, factor, s)
        IN  [tree |-> (IF e.isnum
                       THEN <<NumE(e.k, IF scale THEN Scaled(e.num, factor) ELSE e.num)>>
                       ELSE <<>>) \o rest.tree,
             rng |-> rest.rng]

\* the loop over node.items() of the three branches, entries in order:
\* a nested dict is walked (and moves the generator on), a number is
\* multiplied when the branch multiplies (scale), kept otherwise.
\* Returns [tree, rng].
ConvertItems(items, scale, factor, s) ==
    IF items = <<>> THEN [tree |-> <<>>, rng |-> s]
    ELSE
        LET e == Head(items)
            sub == walk_and_convert(e.kids, s)
            first == IF e.isnum
                     THEN NumE(e.k, IF scale THEN Scaled(e.num, factor) ELSE e.num)
                     ELSE DictE(e.k, sub.tree)
            rest == ConvertItems(Tail(items), scale, factor, IF e.isnum THEN s ELSE sub.rng)
        IN  [tree |-> <<first>> \o rest.tree, rng |-> rest.rng]

\* walk_and_convert(node) with the generator in state s: [tree, rng]
walk_and_convert(node, s) ==
    IF has_year_data(node) /\ ~has_children(node) THEN
        \* pure leaf
        LET draw == DrawFactor(base_val(node), s)
        IN  ConvertItems(node, TRUE, draw.factor, draw.rng)
    ELSE IF has_year_data(node) /\ has_children(node) THEN
        \* mixed node: its own factor first, then the items
        LET draw == DrawFactor(base_val(node), s)
        IN  ConvertItems(node, TRUE, draw.factor, draw.rng)
    ELSE
        \* pure container
        ConvertItems(node, FALSE, [n |-> 1, d |-> 1], s)

\* generate_volume_from_value(value_data) with the generator in state s
generate_volume_from_value(data, s) == walk_and_convert(data, RandomSeed(s, SEED))

-----------------------------------------------------------------------------
(* Inputs of generate_volume_from_value: the trees main() passes on, built *)
(* by build_json_from_value_sheet from short sheets                        *)

\* longest free part of the sheets the value trees are built from
MaxValueRows == 3

ValueRowChoices ==
    { Row("By Region", 1, NoData),
      Row("Combo Products", 2, YearData(Y1(100))),
      Row("Combo Products", 2, YearData(Y1(5000))),
      Row("Other", 2, YearData(Y2(20000, 900))),
      Row("Inhalers", 3, YearData(Y1(60))), Row("Pumps", 3, YearData(Y1(40))),
      \* a label cell that holds the number 2021: str(label)
      Row("2021", 2, YearData(Y1(100))) }

\* trees of other shapes: a number under a name in a container, a year key
\* holding a mapping, a leaf with a number under a name
OddTrees ==
    { <<NumE("Total", 7)>>,
      <<DictE("2021", <<NumE("2022", 2000)>>)>>,
      <<NumE("2021", 12000), NumE("Note", 3)>> }

ValueTrees ==
    {build_json_from_value_sheet(ContextHead \o t).tree :
        t \in SeqsUpTo(ValueRowChoices, MaxValueRows)} \cup OddTrees

\* calls of generate_volume_from_value in one run of the model
MaxCalls == 2

BuildIdle ==
    /\ rows = <<>>
    /\ result = NotRun

VolumeInit ==
    /\ value_data \in ValueTrees
    /\ rng \in 0..RngMax
    /\ volume_json = <<>>
    /\ first_volume = <<>>
    /\ first_rng = 0
    /\ calls = 0
    /\ BuildIdle
    /\ ReadIdle
    /\ NormIdle
    /\ MainIdle
    /\ DrawIdle
    /\ SolarIdle

\* volume_json = generate_volume_from_value(value_json)
GenerateVolume ==
    /\ calls < MaxCalls
    /\ LET out == generate_volume_from_value(value_data, rng)
       IN  /\ volume_json' = out.tree
           /\ rng' = out.rng
           /\ first_volume' = IF calls = 0 THEN out.tree ELSE first_volume
    /\ first_rng' = IF calls = 0 THEN rng ELSE first_rng
    /\ calls' = calls + 1
    /\ UNCHANGED <<value_data, buildVars, readVars, normVars, mainVars, drawVars, solarVars>>

\* any other use of the random module between two calls
OtherRandomUse ==
    /\ rng' = RngNext(rng)
    /\ UNCHANGED <<value_data, volume_json, first_volume, first_rng, calls,
                   buildVars, readVars, normVars, mainVars, drawVars, solarVars>>

VolumeNext == GenerateVolume \/ OtherRandomUse

SpecVolume == VolumeInit /\ [][VolumeNext]_vars

-----------------------------------------------------------------------------
(* C3 *)

\* C3: every call of generate_volume_from_value on the same value tree
\* returns the tree the first call returned, whatever state the generator
\* was in when the call began.
C3_Deterministic == calls >= 1 => volume_json = first_volume

\* entries of a tree, nested ones included, that are numbers
RECURSIVE CountNumbers(_)
CountNumbers(d) ==
    IF d = <<>> THEN 0
    ELSE (IF Head(d).isnum THEN 1 ELSE CountNumbers(Head(d).kids)) + CountNumbers(Tail(d))

\* a second call ended, on a tree with numbers under several nodes, and its
\* generator state at entry could not have been the first call's
C3_TwoCalls ==
    /\ calls = 2
    /\ CountNumbers(value_data) >= 3
    /\ first_rng # SEED % RngMod
    /\ volume_json # value_data

-----------------------------------------------------------------------------
(* C4 *)

\* same keys in the same order, numbers where numbers are, dicts where dicts are
RECURSIVE SameShape(_, _)
SameShape(a, b) ==
    /\ Len(a) = Len(b)
    /\ \A i \in 1..Len(a) :
          /\ a[i].k = b[i].k
          /\ a[i].isnum = b[i].isnum
          /\ ~a[i].isnum => SameShape(a[i].kids, b[i].kids)

\* C4: the tree generate_volume_from_value returns has the shape of its
\* argument: at every path the same keys in the same order, a nested mapping
\* where the argument has one, a number where the argument has one.
C4_SameShape == calls >= 1 => SameShape(value_data, volume_json)

\* a call ended on a tree with a mixed node (year values and two children)
C4_MixedConverted ==
    /\ calls >= 1
    /\ \E g \in 1..Len(value_data) : \E t \in 1..Len(value_data[g].kids) :
          \E n \in 1..Len(value_data[g].kids[t].kids) :
              LET node == value_data[g].kids[t].kids[n].kids
              IN  has_year_data(node) /\ Cardinality(ChildKeys(node)) = 2


-----------------------------------------------------------------------------
(* C11 *)

\* the entries of a node that are numeric values of its own
OwnNumbers(node) == {i \in 1..Len(node) : node[i].isnum}

\* the node's own value: the first of its numeric values
OwnValue(node) ==
    node[CHOOSE i \in OwnNumbers(node) : \A m \in OwnNumbers(node) : i <= m].num

\* the multiplier range of the magnitude bucket of the value v
BucketRange(v) ==
    IF v > LargeBase THEN <<LargeLow, LargeHigh>>
    ELSE IF v > MediumBase THEN <<LargeHigh, MediumHigh>>
    ELSE <<MediumHigh, SmallHigh>>

RECURSIVE OneFactorPerNode(_, _)
RECURSIVE OneFactorItems(_, _, _)

\* the entries of a node in order: each number multiplied by the node's
\* factor, each child converted with what it draws itself
OneFactorItems(items, factor, s) ==
    IF items = <<>> THEN [tree |-> <<>>, rng |-> s]
    ELSE
        LET e == Head(items)
            sub == OneFactorPerNode(e.kids, s)
            rest == OneFactorItems(Tail(items), factor, IF e.isnum THEN s ELSE sub.rng)
        IN  [tree |-> <<IF e.isnum THEN NumE(e.k, Scaled(e.num, factor))
                        ELSE DictE(e.k, sub.tree)>> \o rest.tree,
             rng |-> rest.rng]

\* the conversion in which a node with numeric values of its own draws one
\* factor, from the range of the bucket of its own value, and a node without
\* them draws none: [tree, rng]
OneFactorPerNode(node, s) ==
    IF OwnNumbers(node) = {} THEN OneFactorItems(node, [n |-> 1, d |-> 1], s)
    ELSE
        LET range == BucketRange(OwnValue(node))
            draw == Uniform(range[1], range[2], s)
        IN  OneFactorItems(node, draw.factor, draw.rng)

\* what a call of generate_volume_from_value on the value tree returns and
\* where it leaves the generator, against the same for OneFactorPerNode
DrawsAsClaimed ==
    LET out == generate_volume_from_value(value_data, first_rng)
        claimed == OneFactorPerNode(value_data, SEED % RngMod)
    IN  /\ volume_json = claimed.tree
        /\ out.rng = claimed.rng

\* C11: for any value tree, generate_volume_from_value draws exactly one
\* factor for each node that has numeric values of its own and none for a
\* pure container; the factor comes from the range of the bucket of the
\* node's own value, multiplies every numeric entry of the node, and a child
\* of a mixed node is multiplied by the factor the child draws, not by its
\* parent's.
C11_OneFactorPerNode == calls >= 1 => DrawsAsClaimed

\* every key of the tree tells the kind of its value: a year label holds a
\* number, any other key holds a mapping
RECURSIVE KeysTellKinds(_)
KeysTellKinds(d) ==
    \A i \in 1..Len(d) :
        /\ IsDigit(d[i].k) <=> d[i].isnum
        /\ ~d[i].isnum => KeysTellKinds(d[i].kids)

\* the same on the trees in which no name is a string of digits and no
\* number stands under a name: this holds
C11_OneFactorWhenKeysTellKinds ==
    calls >= 1 /\ KeysTellKinds(value_data) => DrawsAsClaimed

\* a call ended on a tree with a mixed node of the middle bucket whose two
\* children are of the small bucket, and no name of the tree is a year label
C11_MixedWithChildrenConverted ==
    /\ C4_MixedConverted
    /\ KeysTellKinds(value_data)
    /\ volume_json # value_data

-----------------------------------------------------------------------------
(* The factors walk_and_convert draws, visit by visit: a call of            *)
(* generate_volume_from_value seeds the generator, and every visit of a    *)
(* pure leaf or of a mixed node draws one factor for the node's base_val.  *)
(* The visits of a call are those of any tree, so the base values come in  *)
(* any order.                                                              *)

\* visits that draw a factor in one run of the model
MaxDraws == 6

\* base values on both sides of the two thresholds, and the default 1
BaseValues == {1, MediumBase, MediumBase + 1, LargeBase, LargeBase + 1}

\* the branch of the if/elif/else that base_val takes
Bucket(v) ==
    IF v > LargeBase THEN "large" ELSE IF v > MediumBase THEN "medium" ELSE "small"

DrawInit ==
    /\ value_data = <<>>
    /\ rng \in 0..RngMax
    /\ volume_json = <<>>
    /\ first_volume = <<>>
    /\ first_rng = 0
    /\ calls = 0
    /\ DrawIdle
    /\ SolarIdle
    /\ BuildIdle
    /\ ReadIdle
    /\ NormIdle
    /\ MainIdle

\* random.seed(42) at the start of generate_volume_from_value
SeedGenerator ==
    /\ rng' = RandomSeed(rng, SEED)
    /\ in_call' = TRUE
    /\ UNCHANGED <<value_data, volume_json, first_volume, first_rng, calls,
                   last_draw, drawn, ndraws, buildVars, readVars, normVars, mainVars, solarVars>>

\* the pure leaf branch: the choice and the draw of its factor
LeafDraw ==
    /\ in_call
    /\ ndraws < MaxDraws
    /\ \E v \in BaseValues :
          LET draw == DrawFactor(v, rng)
          IN  /\ rng' = draw.rng
              /\ last_draw' = [branch |-> "leaf", base_val |-> v, factor |-> draw.factor]
              /\ drawn' = drawn \cup {[bucket |-> Bucket(v), factor |-> draw.factor]}
    /\ ndraws' = ndraws + 1
    /\ UNCHANGED <<value_data, volume_json, first_volume, first_rng, calls, in_call,
                   buildVars, readVars, normVars, mainVars, solarVars>>

\* the mixed node branch: the choice and the draw of its factor
MixedDraw ==
    /\ in_call
    /\ ndraws < MaxDraws
    /\ \E v \in BaseValues :
          LET draw == DrawFactor(v, rng)
          IN  /\ rng' = draw.rng
              /\ last_draw' = [branch |-> "mixed", base_val |-> v, factor |-> draw.factor]
              /\ drawn' = drawn \cup {[bucket |-> Bucket(v), factor |-> draw.factor]}
    /\ ndraws' = ndraws + 1
    /\ UNCHANGED <<value_data, volume_json, first_volume, first_rng, calls, in_call,
                   buildVars, readVars, normVars, mainVars, solarVars>>

DrawNext == SeedGenerator \/ LeafDraw \/ MixedDraw

SpecDraw == DrawInit /\ [][DrawNext]_vars

-----------------------------------------------------------------------------
(* C12 *)

\* C12: the three magnitude buckets are mapped to pairwise disjoint
\* multiplier ranges: no factor value drawn for a node of one bucket is also
\* drawn for a node of another bucket.
C12_DisjointRanges ==
    \A x \in drawn : \A y \in drawn : x.bucket # y.bucket => x.factor # y.factor

\* the factor n/d is the whole number k
IsWhole(f, k) == f.n = k * f.d

\* C12 as amended: a factor value drawn for nodes of two buckets is the end
\* point the ranges of two neighbouring buckets share: 800 for the large and
\* the medium bucket, 1500 for the medium and the small bucket.
C12_RangesMeetAtEndPoints ==
    \A x \in drawn : \A y \in drawn :
        x.bucket # y.bucket /\ x.factor = y.factor =>
            \/ {x.bucket, y.bucket} = {"large", "medium"} /\ IsWhole(x.factor, LargeHigh)
            \/ {x.bucket, y.bucket} = {"medium", "small"} /\ IsWhole(x.factor, MediumHigh)

\* one factor value has been drawn for nodes of two buckets
C12_SharedEndPointDrawn ==
    \E x \in drawn : \E y \in drawn : x.bucket # y.bucket /\ x.factor = y.factor

-----------------------------------------------------------------------------
(* Row extraction: the loop bodies of read_value_sheet (convert_excel.py)  *)
(* and of parse_section (generate_solar_data.py).  A cell is None, a       *)
(* number, a text that float() parses, or a text that it does not parse.   *)
(* Cell numbers are counted in hundredths; round(val, 1) gives tenths.     *)

\* the year columns of the sheet, the first of YEARS / years
YEARS == <<"2021", "2022", "2023">>

Cell(kind, val) == [kind |-> kind, val |-> val]

CellValues ==
    { Cell("none", 0), Cell("number", 1234), Cell("number", 1225),
      Cell("numtext", 750), Cell("text", 0) }

\* isinstance(val, str)
IsStr(c) == c.kind \in {"numtext", "text"}

\* round(val, 1) of a number in hundredths, in tenths
Round1(val) == Round(val, 10)

\* str(x).strip()
Strip(x) == IF x = " " THEN "" ELSE x

\* str(row[n]).strip() if row[n] else ""
LabelText(x) == IF x = None \/ x = "" THEN "" ELSE Strip(x)

\* columns 2.. of one row in read_value_sheet: year_data after the loop
RECURSIVE ValueSheetYears(_, _)
ValueSheetYears(cs, i) ==
    IF i > Len(cs) THEN <<>>
    ELSE <<NumE(YEARS[i], IF cs[i].kind = "none" THEN 0 ELSE Round1(cs[i].val))>>
         \o ValueSheetYears(cs, i + 1)

\* one iteration of the loop of read_value_sheet on a row with label lab
\* and year cells cs: round(val, 1) raises TypeError on a str
read_value_sheet_row(lab, cs) ==
    IF lab = None
    THEN [status |-> "ok", appended |-> FALSE, year_data |-> NoData]
    ELSE IF \E i \in 1..Len(cs) : IsStr(cs[i])
    THEN [status |-> "TypeError", appended |-> FALSE, year_data |-> NoData]
    ELSE [status |-> "ok", appended |-> TRUE,
          year_data |-> IF \E i \in 1..Len(cs) : cs[i].kind = "number"
                        THEN YearData(ValueSheetYears(cs, 1)) ELSE NoData]

\* the try/except around float(val): the years whose cell float() accepts
RECURSIVE SectionValues(_, _)
SectionValues(cs, i) ==
    IF i > Len(cs) THEN <<>>
    ELSE (IF cs[i].kind \in {"number", "numtext"} THEN <<NumE(YEARS[i], cs[i].val)>> ELSE <<>>)
         \o SectionValues(cs, i + 1)

\* one iteration of the loop of parse_section on a row
parse_section_row(labs, cs) ==
    LET region == LabelText(labs[1])
        segment == LabelText(labs[2])
        subsegment == LabelText(labs[3])
        values == SectionValues(cs, 1)
    IN  IF region = "" \/ segment = "" \/ subsegment = ""
        THEN [status |-> "ok", appended |-> FALSE, year_data |-> NoData]
        ELSE IF region = "Region" \/ region = "Volume"
        THEN [status |-> "ok", appended |-> FALSE, year_data |-> NoData]
        ELSE IF values = <<>>
        THEN [status |-> "ok", appended |-> FALSE, year_data |-> YearData(values)]
        ELSE [status |-> "ok", appended |-> TRUE, year_data |-> YearData(values)]

RowLabels(src) ==
    IF src = "indent" THEN {<<"Global">>, <<None>>}
    ELSE { <<"Global", "By Technology", "Residential">>,
           <<"Region", "Segment", "Sub-segment">>,
           <<"Global", " ", "Residential">>,
           <<None, "By Technology", "Residential">> }

ReadInit ==
    /\ source \in {"indent", "column"}
    /\ labels \in RowLabels(source)
    /\ cells \in [1..Len(YEARS) -> CellValues]
    /\ extracted = [status |-> "not_run", appended |-> FALSE, year_data |-> NoData]
    /\ BuildIdle
    /\ VolumeIdle
    /\ NormIdle
    /\ MainIdle
    /\ DrawIdle
    /\ SolarIdle

ReadValueSheetRow ==
    /\ source = "indent"
    /\ extracted.status = "not_run"
    /\ extracted' = read_value_sheet_row(labels[1], cells)
    /\ UNCHANGED <<source, labels, cells, buildVars, volumeVars, normVars, mainVars,
                   drawVars, solarVars>>

ParseSectionRow ==
    /\ source = "column"
    /\ extracted.status = "not_run"
    /\ extracted' = parse_section_row(labels, cells)
    /\ UNCHANGED <<source, labels, cells, buildVars, volumeVars, normVars, mainVars,
                   drawVars, solarVars>>

ReadNext == ReadValueSheetRow \/ ParseSectionRow

SpecRead == ReadInit /\ [][ReadNext]_vars

-----------------------------------------------------------------------------
(* C5 *)

\* the row is one the extraction does not skip for its labels
RowWanted ==
    IF source = "indent" THEN labels[1] # None
    ELSE /\ \A n \in 1..3 : LabelText(labels[n]) # ""
         /\ LabelText(labels[1]) \notin {"Region", "Volume"}

\* the year cell cannot be parsed as a number
Unparseable(c) == c.kind = "text"

\* years with a number are in the mapping, years with an unparseable cell are not
OtherYearsKept ==
    \A i \in 1..Len(cells) :
        /\ cells[i].kind = "number" =>
              /\ extracted.appended
              /\ HasKey(extracted.year_data.items, YEARS[i])
        /\ Unparseable(cells[i]) => ~HasKey(extracted.year_data.items, YEARS[i])

\* C5: in both sources a year cell that cannot be parsed as a number is not
\* fatal: the extraction of the row completes, the row's other years are
\* kept and the offending year is left out of the row's year mapping.
C5_UnparseableCellNotFatal ==
    (extracted.status # "not_run" /\ RowWanted /\ \E i \in 1..Len(cells) : Unparseable(cells[i]))
        => extracted.status = "ok" /\ OtherYearsKept

\* the same, for parse_section alone
C5_ColumnSourceOnly ==
    (source = "column" /\ extracted.status # "not_run" /\ RowWanted
        /\ \E i \in 1..Len(cells) : Unparseable(cells[i]))
        => extracted.status = "ok" /\ OtherYearsKept


-----------------------------------------------------------------------------
(* Label normalization in build_json and build_volume_json.  A label is    *)
(* the sequence of its words, which single blanks separate in the string.  *)

\* the words labels are made of
Words == {"Middle", "MIDDLE", "East", "Eastern", "and", "&", "Africa", "african", "Asia"}

\* word.lower()
Lower(w) ==
    CASE w \in {"Middle", "MIDDLE"} -> "middle"
      [] w = "East" -> "east"
      [] w = "Eastern" -> "eastern"
      [] w = "Africa" -> "africa"
      [] w = "Asia" -> "asia"
      [] OTHER -> w

\* "middle east" in label.lower(): a word that ends with "middle", a blank,
\* a word that starts with "east"
ContainsMiddleEast(label) ==
    \E i \in 1..(Len(label) - 1) :
        /\ Lower(label[i]) = "middle"
        /\ Lower(label[i + 1]) \in {"east", "eastern"}

\* "africa" in label.lower(): a word that contains "africa"
ContainsAfrica(label) ==
    \E i \in 1..Len(label) : Lower(label[i]) \in {"africa", "african"}

\* "Middle East & Africa"
MiddleEastAndAfrica == <<"Middle", "East", "&", "Africa">>

\* a normalization that rewrote the conjunction in place, "&" to "and" as
\* well as "and" to "&", would be
NormalizeSwapping(label) ==
    IF ContainsMiddleEast(label) /\ ContainsAfrica(label)
    THEN [i \in 1..Len(label) |->
             IF label[i] = "and" THEN "&" ELSE IF label[i] = "&" THEN "and" ELSE label[i]]
    ELSE label

\* if "middle east" in subseg.lower() and "africa" in subseg.lower():
\*     subseg = "Middle East & Africa"
Normalize(label) ==
    IF ContainsMiddleEast(label) /\ ContainsAfrica(label)
    THEN MiddleEastAndAfrica
    ELSE label

\* longest label, in words
MaxWords == 4

\* normalizations applied to one label in one run of the model
MaxApplied == 2

NormInit ==
    /\ subseg \in SeqsUpTo(Words, MaxWords)
    /\ after_first = <<>>
    /\ applied = 0
    /\ BuildIdle
    /\ VolumeIdle
    /\ ReadIdle
    /\ MainIdle
    /\ DrawIdle
    /\ SolarIdle

NormalizeLabel ==
    /\ applied < MaxApplied
    /\ subseg' = Normalize(subseg)
    /\ after_first' = IF applied = 0 THEN Normalize(subseg) ELSE after_first
    /\ applied' = applied + 1
    /\ UNCHANGED <<buildVars, volumeVars, readVars, mainVars, drawVars, solarVars>>

NormNext == NormalizeLabel

SpecNorm == NormInit /\ [][NormNext]_vars

-----------------------------------------------------------------------------
(* C7 *)

\* C7: normalizing an already normalized label returns the same label.
C7_Idempotent == applied >= 1 => subseg = after_first

\* a label was normalized twice and is "Middle East & Africa"
C7_FoldedTwice ==
    /\ applied = 2
    /\ subseg = MiddleEastAndAfrica
    /\ after_first = MiddleEastAndAfrica


-----------------------------------------------------------------------------
(* main() of convert_excel.py and of generate_solar_data.py, statement by  *)
(* statement, with the workbook and the output files.  The trees of        *)
(* generate_solar_data.py are not part of this state.                      *)

\* longest free part of the sheets main() is run on
MaxMainRows == 2

\* sheets main() of convert_excel.py is run on: the rows read_value_sheet
\* returns, or a sheet with a text in a year cell (readable = FALSE)
ConvertSheets ==
    {[rows |-> ContextHead \o t, readable |-> r] :
        t \in SeqsUpTo(ValueRowChoices, MaxMainRows), r \in BOOLEAN}
    \cup {[rows |-> OrphanHead, readable |-> TRUE],
          [rows |-> <<Row("Global", 0, NoData), Row("By Service Type", 1, NoData),
                      Row("Other", 2, YearData(Y2(20000, 900)))>>, readable |-> TRUE]}

\* sheets main() of generate_solar_data.py is run on: with its header row,
\* or without (header_indices[0] raises IndexError)
SolarSheets == {[rows |-> <<>>, readable |-> r] : r \in BOOLEAN}

SolarOutputs == <<"VALUE_JSON", "VOLUME_JSON", "SEG_JSON">>

MainInit ==
    /\ pipeline \in {"convert_excel", "generate_solar_data"}
    /\ sheet \in IF pipeline = "convert_excel" THEN ConvertSheets ELSE SolarSheets
    /\ pc = "start"
    /\ wb = "unopened"
    /\ opens = 0
    /\ files = <<>>
    /\ rng \in 0..RngMax
    /\ value_data = <<>>
    /\ volume_json = <<>>
    /\ first_volume = <<>>
    /\ first_rng = 0
    /\ calls = 0
    /\ BuildIdle
    /\ ReadIdle
    /\ NormIdle
    /\ DrawIdle
    /\ SolarIdle

\* wb = openpyxl.load_workbook(...): returns the workbook, or raises
LoadWorkbook ==
    /\ pc = "start"
    /\ \/ /\ wb' = "open"
          /\ opens' = opens + 1
          /\ pc' = "loaded"
       \/ /\ pc' = "failed"
          /\ UNCHANGED <<wb, opens>>
    /\ UNCHANGED <<pipeline, sheet, files, buildVars, volumeVars, readVars, normVars,
                   drawVars, solarVars>>

\* the rest of read_value_sheet: the loop over the rows, then wb.close()
ReadValueSheet ==
    /\ pipeline = "convert_excel"
    /\ pc = "loaded"
    /\ IF sheet.readable
       THEN /\ rows' = sheet.rows
            /\ wb' = "closed"
            /\ pc' = "read"
       ELSE /\ pc' = "failed"
            /\ UNCHANGED <<rows, wb>>
    /\ UNCHANGED <<pipeline, sheet, opens, files, result, volumeVars, readVars, normVars,
                   drawVars, solarVars>>

\* value_json = build_json_from_value_sheet(rows)
BuildValueJson ==
    /\ pipeline = "convert_excel"
    /\ pc = "read"
    /\ result' = build_json_from_value_sheet(rows)
    /\ pc' = IF result'.status = "ok" THEN "built" ELSE "failed"
    /\ UNCHANGED <<pipeline, sheet, wb, opens, files, rows, volumeVars, readVars, normVars,
                   drawVars, solarVars>>

\* with open('public/data/value.json', 'w') as f: json.dump(value_json, f, indent=2)
WriteValueJson ==
    /\ pipeline = "convert_excel"
    /\ pc = "built"
    /\ files' = Append(files, "public/data/value.json")
    /\ pc' = "value_written"
    /\ UNCHANGED <<pipeline, sheet, wb, opens, buildVars, volumeVars, readVars, normVars,
                   drawVars, solarVars>>

\* volume_json = generate_volume_from_value(value_json)
GenerateVolumeJson ==
    /\ pipeline = "convert_excel"
    /\ pc = "value_written"
    /\ value_data' = result.tree
    /\ LET out == generate_volume_from_value(result.tree, rng)
       IN  /\ volume_json' = out.tree
           /\ first_volume' = out.tree
           /\ rng' = out.rng
    /\ first_rng' = rng
    /\ calls' = calls + 1
    /\ pc' = "volume_made"
    /\ UNCHANGED <<pipeline, sheet, wb, opens, files, buildVars, readVars, normVars,
                   drawVars, solarVars>>

\* with open('public/data/volume.json', 'w') as f: json.dump(volume_json, f, indent=2)
WriteVolumeJson ==
    /\ pipeline = "convert_excel"
    /\ pc = "volume_made"
    /\ files' = Append(files, "public/data/volume.json")
    /\ pc' = "volume_written"
    /\ UNCHANGED <<pipeline, sheet, wb, opens, buildVars, volumeVars, readVars, normVars,
                   drawVars, solarVars>>

\* the verification prints: list(global_svc.values())[0] raises IndexError
\* when Global holds no sub-segment under 'By Service Type'
Verification ==
    /\ pipeline = "convert_excel"
    /\ pc = "volume_written"
    /\ pc' = IF /\ HasKey(result.tree, "Global")
                /\ HasKey(Kids(result.tree, "Global"), "By Service Type")
                /\ Kids(Kids(result.tree, "Global"), "By Service Type") # <<>>
             THEN "done" ELSE "failed"
    /\ UNCHANGED <<pipeline, sheet, wb, opens, files, buildVars, volumeVars, readVars,
                   normVars, drawVars, solarVars>>

\* the rest of read_excel: it returns the records, or raises; it does not
\* close the workbook
ReadExcel ==
    /\ pipeline = "generate_solar_data"
    /\ pc = "loaded"
    /\ pc' = IF sheet.readable THEN "read" ELSE "failed"
    /\ UNCHANGED <<pipeline, sheet, wb, opens, files, buildVars, volumeVars, readVars,
                   normVars, drawVars, solarVars>>

\* build_json, build_volume_json, build_segmentation_analysis, verify_data
BuildSolarJson ==
    /\ pipeline = "generate_solar_data"
    /\ pc = "read"
    /\ pc' = "built"
    /\ UNCHANGED <<pipeline, sheet, wb, opens, files, buildVars, volumeVars, readVars,
                   normVars, drawVars, solarVars>>

\* the three with open(..., "w") blocks, in order
WriteSolarOutput ==
    /\ pipeline = "generate_solar_data"
    /\ pc = "built"
    /\ files' = Append(files, SolarOutputs[Len(files) + 1])
    /\ pc' = IF Len(files') = Len(SolarOutputs) THEN "done" ELSE "built"
    /\ UNCHANGED <<pipeline, sheet, wb, opens, buildVars, volumeVars, readVars, normVars,
                   drawVars, solarVars>>

MainNext ==
    \/ LoadWorkbook
    \/ ReadValueSheet
    \/ BuildValueJson
    \/ WriteValueJson
    \/ GenerateVolumeJson
    \/ WriteVolumeJson
    \/ Verification
    \/ ReadExcel
    \/ BuildSolarJson
    \/ WriteSolarOutput

SpecMain == MainInit /\ [][MainNext]_vars

-----------------------------------------------------------------------------
(* C8 *)

\* C8: in each pipeline's main run the workbook is opened once and closed
\* before the first output file is written: whenever an output file has been
\* written, the workbook was opened exactly once and is closed (so nothing is
\* written while it is open, nor when loading it failed).
C8_ClosedBeforeWrite ==
    /\ opens <= 1
    /\ files # <<>> => opens = 1 /\ wb = "closed"

\* the same, for convert_excel.py alone
C8_ConvertExcelOnly ==
    pipeline = "convert_excel" =>
        /\ opens <= 1
        /\ files # <<>> => opens = 1 /\ wb = "closed"

\* nothing is written when loading the workbook failed, in both pipelines
C8_NoWriteWithoutLoad == files # <<>> => opens = 1

-----------------------------------------------------------------------------
(* generate_solar_data.py: build_json and build_volume_json.  Region and   *)
(* sub-segment labels are sequences of words, as in the normalization;     *)
(* segment types and years are strings.  Record values are in hundredths.  *)

Global == <<"Global">>

\* GEO_HIERARCHY: region -> [countries], in order
GEO_HIERARCHY ==
    << [region |-> <<"North", "America">>,
        countries |-> << <<"U.S.">>, <<"Canada">> >>],
       [region |-> <<"Europe">>,
        countries |-> << <<"U.K.">>, <<"Germany">>, <<"Italy">>, <<"France">>, <<"Spain">>,
                         <<"Russia">>, <<"Rest", "of", "Europe">> >>],
       [region |-> <<"Asia", "Pacific">>,
        countries |-> << <<"China">>, <<"India">>, <<"Japan">>, <<"South", "Korea">>,
                         <<"ASEAN">>, <<"Australia">>,
                         <<"Rest", "of", "Asia", "Pacific">> >>],
       [region |-> <<"Latin", "America">>,
        countries |-> << <<"Brazil">>, <<"Argentina">>, <<"Mexico">>,
                         <<"Rest", "of", "Latin", "America">> >>],
       [region |-> MiddleEastAndAfrica,
        countries |-> << <<"GCC">>, <<"South", "Africa">>,
                         <<"Rest", "of", "Middle", "East", "&", "Africa">> >>] >>

\* REGIONS = list(GEO_HIERARCHY.keys())
REGIONS == [i \in 1..Len(GEO_HIERARCHY) |-> GEO_HIERARCHY[i].region]

\* for countries in GEO_HIERARCHY.values(): ALL_COUNTRIES.extend(countries)
RECURSIVE CountriesFrom(_)
CountriesFrom(i) ==
    IF i > Len(GEO_HIERARCHY) THEN <<>>
    ELSE GEO_HIERARCHY[i].countries \o CountriesFrom(i + 1)

ALL_COUNTRIES == CountriesFrom(1)

\* all_geos = ["Global"] + REGIONS + ALL_COUNTRIES
all_geos == <<Global>> \o REGIONS \o ALL_COUNTRIES

\* geo in REGIONS
InRegions(geo) == \E i \in 1..Len(REGIONS) : REGIONS[i] = geo

\* a record as parse_section appends it
Rec(region, segment, subsegment, values) ==
    [region |-> region, segment |-> segment, subsegment |-> subsegment, values |-> values]

\* region_records[geo], the records of region geo in order; empty when
\* geo not in region_records
GeoRecs(recs, geo) == SelectSeq(recs, LAMBDA r : r.region = geo)

\* round(v, 1) in build_json, in tenths; round(v) in build_volume_json
RoundFor(sect, v) == IF sect = "value" THEN Round1(v) ELSE Round(v, 100)

\* for yr in years: if yr in rec["values"]: rounded_values[yr] = round(...)
RECURSIVE RoundedValues(_, _, _, _)
RoundedValues(sect, values, years, i) ==
    IF i > Len(years) THEN <<>>
    ELSE (IF HasKey(values, years[i])
          THEN <<NumE(years[i], RoundFor(sect, DictGet(values, years[i]).num))>>
          ELSE <<>>) \o RoundedValues(sect, values, years, i + 1)

\* the first loop over geo_recs: data[geo][seg_type][subseg] = rounded_values
\* for every segment type but "By Region" and "By Country"
RECURSIVE DataSegments(_, _, _, _, _)
DataSegments(sect, geo_recs, years, i, entry) ==
    IF i > Len(geo_recs) THEN entry
    ELSE
        LET rec == geo_recs[i]
            segs == IF HasKey(entry, rec.segment) THEN Kids(entry, rec.segment) ELSE <<>>
            rounded == RoundedValues(sect, rec.values, years, 1)
        IN  IF rec.segment \in {"By Region", "By Country"}
            THEN DataSegments(sect, geo_recs, years, i + 1, entry)
            ELSE DataSegments(sect, geo_recs, years, i + 1,
                     DictSet(entry, DictE(rec.segment,
                         DictSet(segs, DictE(rec.subsegment, rounded)))))

\* by_region: the "By Region" records of Global under the normalized label
RECURSIVE ByRegion(_, _, _, _, _)
ByRegion(sect, geo_recs, years, i, by_region) ==
    IF i > Len(geo_recs) THEN by_region
    ELSE
        LET rec == geo_recs[i]
        IN  IF rec.segment = "By Region"
            THEN ByRegion(sect, geo_recs, years, i + 1,
                     DictSet(by_region, DictE(Normalize(rec.subsegment),
                         RoundedValues(sect, rec.values, years, 1))))
            ELSE ByRegion(sect, geo_recs, years, i + 1, by_region)

\* by_country: the "By Country" records of a region under the label as read
RECURSIVE ByCountry(_, _, _, _, _)
ByCountry(sect, geo_recs, years, i, by_country) ==
    IF i > Len(geo_recs) THEN by_country
    ELSE
        LET rec == geo_recs[i]
        IN  IF rec.segment = "By Country"
            THEN ByCountry(sect, geo_recs, years, i + 1,
                     DictSet(by_country, DictE(rec.subsegment,
                         RoundedValues(sect, rec.values, years, 1))))
            ELSE ByCountry(sect, geo_recs, years, i + 1, by_country)

\* data[geo] at the end of the iteration for geo
GeoEntry(sect, geo, geo_recs, years) ==
    LET segments == DataSegments(sect, geo_recs, years, 1, <<>>)
        by_region == ByRegion(sect, geo_recs, years, 1, <<>>)
        by_country == ByCountry(sect, geo_recs, years, 1, <<>>)
        with_regions == IF geo = Global /\ by_region # <<>>
                        THEN DictSet(segments, DictE("By Region", by_region))
                        ELSE segments
    IN  IF InRegions(geo) /\ by_country # <<>>
        THEN DictSet(with_regions, DictE("By Country", by_country))
        ELSE with_regions

\* for geo in all_geos: a geography without records is passed over
RECURSIVE BuildGeos(_, _, _, _, _)
BuildGeos(sect, recs, years, i, data) ==
    IF i > Len(all_geos) THEN data
    ELSE
        LET geo == all_geos[i]
        IN  IF GeoRecs(recs, geo) = <<>>
            THEN BuildGeos(sect, recs, years, i + 1, data)
            ELSE BuildGeos(sect, recs, years, i + 1,
                     DictSet(data, DictE(geo, GeoEntry(sect, geo, GeoRecs(recs, geo), years))))

build_json(recs, years) == BuildGeos("value", recs, years, 1, <<>>)

build_volume_json(recs, years) == BuildGeos("volume", recs, years, 1, <<>>)

-----------------------------------------------------------------------------
(* Inputs of build_json / build_volume_json: records as parse_section      *)
(* returns them, the Middle East region spelled both ways                  *)

\* longest list of records
MaxRecords == 3

MiddleEastWordAfrica == <<"Middle", "East", "and", "Africa">>

RestOfMiddleEastAfrica == <<"Rest", "of", "Middle", "East", "&", "Africa">>

RestOfMiddleEastWordAfrica == <<"Rest", "of", "Middle", "East", "and", "Africa">>

MicroInverters == <<"Micro", "Inverters">>

RecordChoices ==
    { Rec(Global, "By Region", MiddleEastWordAfrica, Y1(1234)),
      Rec(Global, "By Region", MiddleEastAndAfrica, Y1(1225)),
      Rec(Global, "By Region", <<"North", "America">>, Y1(750)),
      Rec(Global, "By Technology", MicroInverters, Y2(20000, 900)),
      Rec(MiddleEastWordAfrica, "By Technology", MicroInverters, Y1(300)),
      Rec(MiddleEastAndAfrica, "By Technology", MicroInverters, Y1(310)),
      Rec(MiddleEastAndAfrica, "By Country", RestOfMiddleEastWordAfrica, Y1(100)),
      Rec(MiddleEastAndAfrica, "By Country", RestOfMiddleEastAfrica, Y1(110)),
      Rec(MiddleEastAndAfrica, "By Country", <<"GCC">>, Y1(50)),
      Rec(<<"GCC">>, "By Technology", MicroInverters, Y1(40)),
      Rec(<<"GCC">>, "By Country", <<"GCC">>, Y1(40)) }

SolarInit ==
    /\ section \in {"value", "volume"}
    /\ records \in SeqsUpTo(RecordChoices, MaxRecords)
    /\ solar_data = NotBuilt
    /\ BuildIdle
    /\ VolumeIdle
    /\ ReadIdle
    /\ NormIdle
    /\ MainIdle
    /\ DrawIdle

\* value_data = build_json(value_records, years)
CallBuildJson ==
    /\ section = "value"
    /\ ~solar_data.built
    /\ solar_data' = [built |-> TRUE, data |-> build_json(records, YEARS)]
    /\ UNCHANGED <<section, records, buildVars, volumeVars, readVars, normVars, mainVars,
                   drawVars>>

\* volume_data = build_volume_json(volume_records, years)
CallBuildVolumeJson ==
    /\ section = "volume"
    /\ ~solar_data.built
    /\ solar_data' = [built |-> TRUE, data |-> build_volume_json(records, YEARS)]
    /\ UNCHANGED <<section, records, buildVars, volumeVars, readVars, normVars, mainVars,
                   drawVars>>

SolarNext == CallBuildJson \/ CallBuildVolumeJson

SpecSolar == SolarInit /\ [][SolarNext]_vars

-----------------------------------------------------------------------------
(* C13 *)

\* a label with the conjunction spelled one way: "and" as "&"
Unify(label) == [i \in 1..Len(label) |-> IF label[i] = "and" THEN "&" ELSE label[i]]

\* two labels name the same entity, "and" and "&" apart
SameEntity(a, b) == Unify(a) = Unify(b)

\* no two keys of the mapping d name the same entity
OneKeyPerEntity(d) ==
    \A i \in 1..Len(d) : \A j \in 1..Len(d) : SameEntity(d[i].k, d[j].k) => i = j

\* the mapping of segment type seg under every geography of data that has it
SegmentMaps(data, seg) ==
    {Kids(data[g].kids, seg) : g \in {i \in 1..Len(data) : HasKey(data[i].kids, seg)}}

\* the record names, "and" and "&" apart, a geography the output covers and
\* a segment type that geography carries
Covered(rec) ==
    /\ \E i \in 1..Len(all_geos) : SameEntity(all_geos[i], rec.region)
    /\ rec.segment = "By Region" => Unify(rec.region) = Global
    /\ rec.segment = "By Country" => InRegions(Unify(rec.region))

\* the record is in data: under a key that names its region, under its
\* segment type, under a key that names its sub-segment
Kept(data, rec) ==
    \E g \in 1..Len(data) :
        /\ SameEntity(data[g].k, rec.region)
        /\ HasKey(data[g].kids, rec.segment)
        /\ \E s \in 1..Len(Kids(data[g].kids, rec.segment)) :
              SameEntity(Kids(data[g].kids, rec.segment)[s].k, rec.subsegment)

\* C13: in build_json and build_volume_json every label is normalized before
\* it is a key: records that name the same entity with "and" and with "&"
\* are under one key, be the label the record's region, a "By Region"
\* sub-segment or a "By Country" sub-segment, and no record is lost or is a
\* second sibling because of its spelling.
C13_NormalizedKeys ==
    solar_data.built =>
        /\ OneKeyPerEntity(solar_data.data)
        /\ \A d \in SegmentMaps(solar_data.data, "By Region") : OneKeyPerEntity(d)
        /\ \A d \in SegmentMaps(solar_data.data, "By Country") : OneKeyPerEntity(d)
        /\ \A i \in 1..Len(records) : Covered(records[i]) => Kept(solar_data.data, records[i])

\* the part about the "By Region" sub-segments of Global: this holds
C13_ByRegionNormalized ==
    solar_data.built =>
        /\ \A d \in SegmentMaps(solar_data.data, "By Region") : OneKeyPerEntity(d)
        /\ \A i \in 1..Len(records) :
              records[i].region = Global /\ records[i].segment = "By Region"
                  => Kept(solar_data.data, records[i])

\* both spellings were among the "By Region" records of Global and the data
\* returned has the one key for them
C13_BothSpellingsFolded ==
    /\ solar_data.built
    /\ \E i \in 1..Len(records) : \E j \in 1..Len(records) :
          /\ records[i].region = Global /\ records[i].segment = "By Region"
          /\ records[j].region = Global /\ records[j].segment = "By Region"
          /\ records[i].subsegment = MiddleEastWordAfrica
          /\ records[j].subsegment = MiddleEastAndAfrica
    /\ HasKey(Kids(Kids(solar_data.data, Global), "By Region"), MiddleEastAndAfrica)

\* the part about the "By Country" sub-segments: this fails, the labels are
\* keys as read and both spellings are siblings
C13_ByCountryOneKey ==
    solar_data.built =>
        \A d \in SegmentMaps(solar_data.data, "By Country") : OneKeyPerEntity(d)

\* the part about the record's region: this fails, the records of a region
\* spelled with "and" are under no geography of all_geos and are left out
C13_RegionVariantKept ==
    solar_data.built =>
        \A i \in 1..Len(records) :
            records[i].region = MiddleEastWordAfrica /\ Covered(records[i])
                => Kept(solar_data.data, records[i])

====
